---- MODULE Spec2Model ----
(***************************************************************************)
(* WhatsApp catalog foreign data wrapper (src/src/lib.rs): the singleton   *)
(* ExampleFdw instance, the scan lifecycle calls of its Guest              *)
(* implementation and the per-column decoding of iter_scan.                *)
(***************************************************************************)
EXTENDS Integers, Sequences, FiniteSets, TLC

\* Longest products array a response carries.
MaxRows == 2
\* Longest requested-column list the host passes to iter_scan.
MaxCols == 2

(***************************************************************************)
(* serde_json values.  A value is a tagged record; t = "none" stands for   *)
(* the None that Value::get returns for a missing key or a non-object.     *)
(* An array's elements, and the response itself, are "elements": either an *)
(* object (isObj, with its fields f) or some non-object value.             *)
(***************************************************************************)
JV(t, b, n, s, a) == [t |-> t, b |-> b, n |-> n, s |-> s, a |-> a]
JNone == JV("none", FALSE, 0, "", <<>>)
JNull == JV("null", FALSE, 0, "", <<>>)
JBool(b) == JV("bool", b, 0, "", <<>>)
JInt(n) == JV("int", FALSE, n, "", <<>>)
JFloat == JV("float", FALSE, 0, "", <<>>)
JBigUint == JV("biguint", FALSE, 0, "", <<>>)
JStr(s) == JV("str", FALSE, 0, s, <<>>)
JArr(a) == JV("arr", FALSE, 0, "", a)

\* Value::get(key): None unless the value is an object holding the key.
Get(v, key) ==
    IF v.isObj /\ key \in DOMAIN v.f THEN v.f[key] ELSE JNone

StrCols == {"id", "retailer_id", "name", "description", "url", "currency",
            "price", "availability", "approval_status", "signedShimmedUrl"}
BoolCols == {"is_hidden", "checkmark", "whatsapp_product_can_appeal",
             "is_approved"}
ProductKeys == StrCols \cup BoolCols \cup {"max_available", "images"}

\* A product object holding exactly the given fields.
Obj(fields) ==
    [isObj |-> TRUE,
     f |-> [k \in ProductKeys |->
              IF k \in DOMAIN fields THEN fields[k] ELSE JNone]]
\* An array element that is not an object (a number, a string, null).
NonObj == [isObj |-> FALSE, f |-> [k \in ProductKeys |-> JNone]]
\* An element of an images array: an object with the given url value.
Img(u) == [isObj |-> TRUE, f |-> [k \in {"url"} |-> u]]
ImgNonObj == [isObj |-> FALSE, f |-> [k \in {"url"} |-> JNone]]

(***************************************************************************)
(* Cells of the host row.  cell.as_ref() of a None is the null cell.       *)
(***************************************************************************)
Cell(k, b, n, s) == [k |-> k, b |-> b, n |-> n, s |-> s]
CellNull == Cell("null", FALSE, 0, "")
CellString(s) == Cell("string", FALSE, 0, s)
CellBool(b) == Cell("bool", b, 0, "")
CellI64(n) == Cell("i64", FALSE, n, "")

\* images.iter().filter_map(|img| img.get("url").and_then(as_str))
RECURSIVE Urls(_)
Urls(images) ==
    IF images = <<>> THEN <<>>
    ELSE LET u == Get(Head(images), "url")
         IN  IF u.t = "str" THEN <<u.s>> \o Urls(Tail(images))
             ELSE Urls(Tail(images))

\* urls.join(", ")
RECURSIVE Join(_)
Join(urls) ==
    IF urls = <<>> THEN ""
    ELSE IF Len(urls) = 1 THEN urls[1]
    ELSE urls[1] \o ", " \o Join(Tail(urls))

\* The match arms that are not the fall-through arm.
Supported(col) == col \in ProductKeys

\* Decode with max_available read as any number (as_f64 truncated).
DecodeAnyNumber(src_row, col) ==
    LET v == Get(src_row, col)
    IN  CASE col \in StrCols ->
               IF v.t = "str" THEN CellString(v.s) ELSE CellNull
          [] col \in BoolCols ->
               IF v.t = "bool" THEN CellBool(v.b) ELSE CellNull
          [] col = "max_available" ->
               IF v.t \in {"int", "float", "biguint"} THEN CellI64(v.n)
               ELSE CellNull
          [] col = "images" ->
               IF v.t = "arr" THEN CellString(Join(Urls(v.a))) ELSE CellNull

\* One supported match arm of iter_scan: the cell of column col.
Decode(src_row, col) ==
    LET v == Get(src_row, col)
    IN  CASE col \in StrCols ->
               IF v.t = "str" THEN CellString(v.s) ELSE CellNull
          [] col \in BoolCols ->
               IF v.t = "bool" THEN CellBool(v.b) ELSE CellNull
          [] col = "max_available" ->
               IF v.t = "int" THEN CellI64(v.n) ELSE CellNull
          [] col = "images" ->
               IF v.t = "arr" THEN CellString(Join(Urls(v.a))) ELSE CellNull

UnsupportedColumn(col) ==
    "Column '" \o col \o "' is not supported by the WhatsApp Catalog FDW"

\* Project with the fall-through arm yielding a null cell instead of
\* returning an error.
RECURSIVE ProjectNullForUnknown(_, _, _)
ProjectNullForUnknown(src_row, cols, pushed) ==
    IF cols = <<>> THEN [ok |-> TRUE, err |-> "", cells |-> pushed]
    ELSE ProjectNullForUnknown(src_row, Tail(cols),
            Append(pushed, IF Supported(Head(cols))
                           THEN Decode(src_row, Head(cols)) ELSE CellNull))

\* Project pushing a cell only when the column decoded to Some.
RECURSIVE ProjectOmitNone(_, _, _)
ProjectOmitNone(src_row, cols, pushed) ==
    IF cols = <<>> THEN [ok |-> TRUE, err |-> "", cells |-> pushed]
    ELSE IF ~Supported(Head(cols))
         THEN [ok |-> FALSE, err |-> UnsupportedColumn(Head(cols)),
               cells |-> pushed]
         ELSE LET c == Decode(src_row, Head(cols))
              IN  ProjectOmitNone(src_row, Tail(cols),
                     IF c = CellNull THEN pushed ELSE Append(pushed, c))

\* The loop over ctx.get_columns(): cells are pushed one by one and the
\* fall-through arm returns from iter_scan with what was pushed so far.
RECURSIVE Project(_, _, _)
Project(src_row, cols, pushed) ==
    IF cols = <<>> THEN [ok |-> TRUE, err |-> "", cells |-> pushed]
    ELSE IF ~Supported(Head(cols))
         THEN [ok |-> FALSE, err |-> UnsupportedColumn(Head(cols)),
               cells |-> pushed]
         ELSE Project(src_row, Tail(cols),
                      Append(pushed, Decode(src_row, Head(cols))))

(***************************************************************************)
(* Inputs of the lifecycle calls: the server options the host holds, the   *)
(* outcome of the GET, and the requested columns.                          *)
(***************************************************************************)
OptKeys == {"phone_number", "from_number", "api_key"}
\* Server options: any subset of the keys, each set to "" or to a value.
OptionSets == UNION {[D -> {"", "v"}] : D \in SUBSET OptKeys}
NoOpts == [k \in {} |-> ""]

P1 == Obj([id |-> JStr("p1"), name |-> JStr("Shirt"),
           is_hidden |-> JBool(FALSE), max_available |-> JInt(5),
           images |-> JArr(<<Img(JStr("a")), Img(JStr("b"))>>)])
P2 == Obj([id |-> JInt(7), name |-> JNull, max_available |-> JFloat,
           images |-> JArr(<<>>)])
\* A product without an images key, its quantity above i64::MAX.
P3 == Obj([id |-> JStr("p3"), is_hidden |-> JBool(TRUE),
           max_available |-> JBigUint, price |-> JStr("9.99")])
\* A product holding every key with a value of the type its column reads;
\* its images array also holds a non-object and an object whose url is
\* not a string.
P4 == [isObj |-> TRUE,
       f |-> [k \in ProductKeys |->
                CASE k \in StrCols -> JStr(k)
                  [] k \in BoolCols -> JBool(k = "is_approved")
                  [] k = "max_available" -> JInt(-1)
                  [] k = "images" ->
                       JArr(<<Img(JStr("u")), ImgNonObj, Img(JInt(1)),
                              Img(JStr("w"))>>)]]
\* A product holding every key with a value of another type.
P5 == [isObj |-> TRUE,
       f |-> [k \in ProductKeys |->
                CASE k \in StrCols -> JBool(TRUE)
                  [] k \in BoolCols -> JStr("true")
                  [] k = "max_available" -> JStr("5")
                  [] k = "images" -> JStr("a")]]
\* The records a products array is made of, by name; RecordOf is the JSON
\* value a name stands for.  src_rows holds the names, in array order.
Products == {"p1", "p2"}
RecordOf(id) ==
    CASE id = "p1" -> P1
      [] id = "p2" -> P2
      [] id = "p3" -> P3
      [] id = "p4" -> P4
      [] id = "p5" -> P5
      [] id = "n" -> NonObj
\* The records the decoding is exercised on.
DecodeRecords == {"p1", "p2", "p3", "p4", "p5", "n"}
Rows == UNION {[1..n -> Products] : n \in 0..MaxRows}

ColumnNames == {"id", "images", "bogus"}
ColumnLists == UNION {[1..n -> ColumnNames] : n \in 0..MaxCols}
\* The requested columns the decoding is exercised on: every supported
\* column and an unsupported one alone, short lists with repeats, and a
\* four-column list.
ExampleCols == <<"id", "name", "is_hidden", "max_available">>
DecodeColumnLists ==
    {<<c>> : c \in ProductKeys \cup {"bogus"}}
    \cup UNION {[1..n -> {"id", "name", "images"}] : n \in 0..MaxCols}
    \cup {ExampleCols}

TopKeys == {"success", "products"}
Top(success, products) ==
    [isObj |-> TRUE, f |-> [success |-> success, products |-> products]]
NonObjTop == [isObj |-> FALSE, f |-> [k \in TopKeys |-> JNone]]
\* resp.tr: whether http::get returned Ok; resp.wf: whether the body is
\* well-formed JSON; resp.json: the value the body denotes.
TransportErr == [tr |-> "err", wf |-> FALSE, json |-> NonObjTop]
Garbage == [tr |-> "ok", wf |-> FALSE, json |-> NonObjTop]
Json(j) == [tr |-> "ok", wf |-> TRUE, json |-> j]
NoResp == [tr |-> "none", wf |-> FALSE, json |-> NonObjTop]
Responses ==
    {TransportErr, Garbage, Json(NonObjTop)}
    \cup {Json(Top(JBool(TRUE), p)) :
            p \in {JNone, JStr("x")} \cup {JArr(R) : R \in Rows}}
    \cup {Json(Top(s, p)) :
            s \in {JNone, JBool(FALSE), JStr("true")},
            p \in {JNone, JStr("x"), JArr(<<"p1">>)}}

\* Return values: FdwResult, and Result<Option<u32>, FdwError> of iter_scan.
Ok == [ok |-> TRUE, val |-> "unit", err |-> ""]
Some0 == [ok |-> TRUE, val |-> "some0", err |-> ""]
NoMoreRows == [ok |-> TRUE, val |-> "none", err |-> ""]
Err(msg) == [ok |-> FALSE, val |-> "err", err |-> msg]

NoReq == [sent |-> FALSE, url |-> "", key |-> ""]
CallOf(op, opts, resp, cols) ==
    [op |-> op, opts |-> opts, resp |-> resp, cols |-> cols]

VARIABLES
    inst_ptr,      \* INSTANCE: "null" or "live"
    base_url, phone_number, from_number, api_key,
    src_rows, src_idx,
    row,           \* the host row of the current call: the cells pushed
    call,          \* the current call and its inputs
    ret,           \* what the call returned
    req,           \* the http::Request the call handed to the transport
    scanState,     \* "idle", "clean" (begun from idle) or "carry"
    fetched,       \* the products array of the last successful begin_scan
    nEmitted       \* rows emitted by a clean scan since its begin_scan

config == <<base_url, phone_number, from_number, api_key>>
buffer == <<src_rows, src_idx>>
history == <<scanState, fetched, nEmitted>>
vars == <<inst_ptr, config, buffer, row, call, ret, req, history>>

BaseUrl == "https://api.p.2chat.io/open/whatsapp/catalog/products"

Init ==
    /\ inst_ptr = "null"
    /\ base_url = "" /\ phone_number = "" /\ from_number = "" /\ api_key = ""
    /\ src_rows = <<>> /\ src_idx = 0
    /\ row = <<>>
    /\ call = CallOf("none", NoOpts, NoResp, <<>>)
    /\ ret = Ok
    /\ req = NoReq
    /\ scanState = "idle" /\ fetched = <<>> /\ nEmitted = 0

\* opts.require_or(key, default)
require_or(opts, key, default) ==
    IF key \in DOMAIN opts THEN opts[key] ELSE default

MissingOption(key) == "Missing required option: " \o key

\* InitError without the api_key check.
InitErrorNoApiKeyCheck(p, f, k) ==
    IF p = "" THEN MissingOption("phone_number")
    ELSE IF f = "" THEN MissingOption("from_number")
    ELSE ""

\* The three is_empty checks of init, in order; "" when all pass.
InitError(p, f, k) ==
    IF p = "" THEN MissingOption("phone_number")
    ELSE IF f = "" THEN MissingOption("from_number")
    ELSE IF k = "" THEN MissingOption("api_key")
    ELSE ""

\* init that allocates the instance only when there is none yet.
init_keeps_instance ==
    \E opts \in OptionSets :
        LET p == require_or(opts, "phone_number", "")
            f == require_or(opts, "from_number", "")
            k == require_or(opts, "api_key", "")
            e == InitError(p, f, k)
        IN  /\ inst_ptr' = "live"
            /\ phone_number' = p /\ from_number' = f /\ api_key' = k
            /\ base_url' = IF e = "" THEN BaseUrl ELSE base_url
            /\ row' = <<>>
            /\ call' = CallOf("init", opts, NoResp, <<>>)
            /\ ret' = IF e = "" THEN Ok ELSE Err(e)
            /\ req' = NoReq
            /\ UNCHANGED <<buffer, history>>

init ==
    \E opts \in OptionSets :
        LET p == require_or(opts, "phone_number", "")
            f == require_or(opts, "from_number", "")
            k == require_or(opts, "api_key", "")
            e == InitError(p, f, k)
        IN  /\ inst_ptr' = "live"
            /\ phone_number' = p /\ from_number' = f /\ api_key' = k
            /\ base_url' = IF e = "" THEN BaseUrl ELSE ""
            /\ src_rows' = <<>> /\ src_idx' = 0
            /\ row' = <<>>
            /\ call' = CallOf("init", opts, NoResp, <<>>)
            /\ ret' = IF e = "" THEN Ok ELSE Err(e)
            /\ req' = NoReq
            /\ scanState' = "idle" /\ fetched' = <<>> /\ nEmitted' = 0

HttpErr == "connection refused"
ParseErr == "expected value at line 1 column 1"
TransportError == "HTTP request failed: " \o HttpErr
DecodeError == "Failed to parse JSON response: " \o ParseErr
ApiError == "API request was not successful"
SchemaErrorMissing == "Cannot get 'products' from response"
SchemaErrorNotArray == "'products' is not an array"

\* BeginScanResult with the products array extracted before the success
\* flag is looked at.
BeginScanResultProductsFirst(resp) ==
    IF resp.tr = "err" THEN [r |-> Err(TransportError), rows |-> <<>>]
    ELSE IF ~resp.wf THEN [r |-> Err(DecodeError), rows |-> <<>>]
    ELSE LET s == Get(resp.json, "success")
             p == Get(resp.json, "products")
         IN  IF p.t = "none"
             THEN [r |-> Err(SchemaErrorMissing), rows |-> <<>>]
             ELSE IF p.t # "arr"
             THEN [r |-> Err(SchemaErrorNotArray), rows |-> <<>>]
             ELSE IF ~(s.t = "bool" /\ s.b)
             THEN [r |-> Err(ApiError), rows |-> <<>>]
             ELSE [r |-> Ok, rows |-> p.a]

\* begin_scan from the http::get on: the first failing step decides the
\* error; rows is the products array on success.
BeginScanResult(resp) ==
    IF resp.tr = "err" THEN [r |-> Err(TransportError), rows |-> <<>>]
    ELSE IF ~resp.wf THEN [r |-> Err(DecodeError), rows |-> <<>>]
    ELSE LET s == Get(resp.json, "success")
             p == Get(resp.json, "products")
         IN  IF ~(s.t = "bool" /\ s.b)
             THEN [r |-> Err(ApiError), rows |-> <<>>]
             ELSE IF p.t = "none"
             THEN [r |-> Err(SchemaErrorMissing), rows |-> <<>>]
             ELSE IF p.t # "arr"
             THEN [r |-> Err(SchemaErrorNotArray), rows |-> <<>>]
             ELSE [r |-> Ok, rows |-> p.a]

\* format!("{}/{}?from_number={}", base_url, phone_number, from_number)
Url(b, p, f) == b \o "/" \o p \o "?from_number=" \o f

\* begin_scan that also sets the index back to 0 when it succeeds.
begin_scan_resets_idx ==
    /\ inst_ptr = "live"
    /\ \E resp \in Responses :
        LET res == BeginScanResult(resp)
        IN  /\ req' = [sent |-> TRUE,
                       url |-> Url(base_url, phone_number, from_number),
                       key |-> api_key]
            /\ call' = CallOf("begin_scan", NoOpts, resp, <<>>)
            /\ ret' = res.r
            /\ row' = <<>>
            /\ IF res.r.ok
               THEN /\ src_rows' = res.rows
                    /\ src_idx' = 0
                    /\ fetched' = res.rows
                    /\ nEmitted' = 0
                    /\ scanState' = "clean"
               ELSE UNCHANGED <<buffer, history>>
            /\ UNCHANGED <<inst_ptr, config>>

\* begin_scan that refuses to start while rows of a scan are buffered.
begin_scan_refuses_open_scan ==
    /\ inst_ptr = "live"
    /\ \E resp \in Responses :
        LET res == BeginScanResult(resp)
            busy == src_rows # <<>>
        IN  /\ req' = IF busy THEN NoReq
                      ELSE [sent |-> TRUE,
                            url |-> Url(base_url, phone_number, from_number),
                            key |-> api_key]
            /\ call' = CallOf("begin_scan", NoOpts, resp, <<>>)
            /\ ret' = IF busy THEN Err("A scan is already in progress")
                      ELSE res.r
            /\ row' = <<>>
            /\ IF ~busy /\ res.r.ok
               THEN /\ src_rows' = res.rows
                    /\ fetched' = res.rows
                    /\ nEmitted' = 0
                    /\ scanState' = IF scanState = "idle" THEN "clean"
                                    ELSE "carry"
               ELSE UNCHANGED <<src_rows, history>>
            /\ UNCHANGED <<inst_ptr, config, src_idx>>

\* begin_scan that empties the buffer before it fetches.
begin_scan_clears_first ==
    /\ inst_ptr = "live"
    /\ \E resp \in Responses :
        LET res == BeginScanResult(resp)
        IN  /\ req' = [sent |-> TRUE,
                       url |-> Url(base_url, phone_number, from_number),
                       key |-> api_key]
            /\ call' = CallOf("begin_scan", NoOpts, resp, <<>>)
            /\ ret' = res.r
            /\ row' = <<>>
            /\ src_rows' = IF res.r.ok THEN res.rows ELSE <<>>
            /\ IF res.r.ok
               THEN /\ fetched' = res.rows
                    /\ nEmitted' = 0
                    /\ scanState' = IF scanState = "idle" THEN "clean"
                                    ELSE "carry"
               ELSE UNCHANGED history
            /\ UNCHANGED <<inst_ptr, config, src_idx>>

begin_scan ==
    /\ inst_ptr = "live"
    /\ \E resp \in Responses :
        LET res == BeginScanResult(resp)
        IN  /\ req' = [sent |-> TRUE,
                       url |-> Url(base_url, phone_number, from_number),
                       key |-> api_key]
            /\ call' = CallOf("begin_scan", NoOpts, resp, <<>>)
            /\ ret' = res.r
            /\ row' = <<>>
            /\ IF res.r.ok
               THEN /\ src_rows' = res.rows
                    /\ fetched' = res.rows
                    /\ nEmitted' = 0
                    /\ scanState' = IF scanState = "idle" THEN "clean"
                                    ELSE "carry"
               ELSE UNCHANGED <<src_rows, history>>
            /\ UNCHANGED <<inst_ptr, config, src_idx>>

\* if this.src_idx >= this.src_rows.len()
Exhausted(idx, rows) == idx >= Len(rows)

\* NextIdx with the increment forgotten.
NextIdxStuck(idx) == idx

\* this.src_idx += 1
NextIdx(idx) == idx + 1

\* iter_scan matching the requested columns before it looks at the cursor.
IterScanColumnsFirst(cols) ==
    /\ call' = CallOf("iter_scan", NoOpts, NoResp, cols)
    /\ req' = NoReq
    /\ IF \E i \in DOMAIN cols : ~Supported(cols[i])
       THEN /\ ret' = Err(UnsupportedColumn(
                        cols[CHOOSE i \in DOMAIN cols :
                               /\ ~Supported(cols[i])
                               /\ \A j \in 1..(i - 1) : Supported(cols[j])]))
            /\ row' = <<>>
            /\ UNCHANGED <<src_idx, nEmitted>>
       ELSE IF Exhausted(src_idx, src_rows)
       THEN /\ ret' = NoMoreRows
            /\ row' = <<>>
            /\ UNCHANGED <<src_idx, nEmitted>>
       ELSE /\ row' = Project(RecordOf(src_rows[src_idx + 1]), cols,
                              <<>>).cells
            /\ src_idx' = NextIdx(src_idx)
            /\ nEmitted' = IF scanState = "clean"
                           THEN nEmitted + 1 ELSE nEmitted
            /\ ret' = Some0
    /\ UNCHANGED <<inst_ptr, config, src_rows, scanState, fetched>>

\* The body of iter_scan for the requested columns cols.
IterScanWith(cols) ==
    /\ call' = CallOf("iter_scan", NoOpts, NoResp, cols)
    /\ req' = NoReq
    /\ IF Exhausted(src_idx, src_rows)
       THEN /\ ret' = NoMoreRows
            /\ row' = <<>>
            /\ UNCHANGED <<src_idx, nEmitted>>
       ELSE LET pr == Project(RecordOf(src_rows[src_idx + 1]), cols, <<>>)
            IN  /\ row' = pr.cells
                /\ IF pr.ok
                   THEN /\ src_idx' = NextIdx(src_idx)
                        /\ nEmitted' = IF scanState = "clean"
                                       THEN nEmitted + 1 ELSE nEmitted
                        /\ ret' = Some0
                   ELSE /\ ret' = Err(pr.err)
                        /\ UNCHANGED <<src_idx, nEmitted>>
    /\ UNCHANGED <<inst_ptr, config, src_rows, scanState, fetched>>

iter_scan ==
    /\ inst_ptr = "live"
    /\ \E cols \in ColumnLists : IterScanWith(cols)

\* iter_scan on the columns the decoding is exercised on.
iter_scan_decode ==
    /\ inst_ptr = "live"
    /\ \E cols \in DecodeColumnLists : IterScanWith(cols)

UnsupportedRescan == "Re-scan on foreign table is not supported"
UnsupportedModify == "Modify operations on foreign table are not supported"

\* What a call that never reaches the instance leaves behind.
Untouched(op) ==
    /\ call' = CallOf(op, NoOpts, NoResp, <<>>)
    /\ row' = <<>>
    /\ req' = NoReq
    /\ UNCHANGED <<inst_ptr, config, buffer, history>>

\* re_scan offered as a restart of the scan: the cursor goes back to 0.
re_scan_restart ==
    /\ ret' = Ok
    /\ src_idx' = 0
    /\ call' = CallOf("re_scan", NoOpts, NoResp, <<>>)
    /\ row' = <<>>
    /\ req' = NoReq
    /\ UNCHANGED <<inst_ptr, config, src_rows, history>>

re_scan ==
    /\ ret' = Err(UnsupportedRescan)
    /\ Untouched("re_scan")

\* end_scan that clears the rows and leaves the index where it is.
end_scan_keeps_idx ==
    /\ inst_ptr = "live"
    /\ src_rows' = <<>>
    /\ call' = CallOf("end_scan", NoOpts, NoResp, <<>>)
    /\ ret' = Ok
    /\ row' = <<>>
    /\ req' = NoReq
    /\ scanState' = "idle" /\ fetched' = <<>> /\ nEmitted' = 0
    /\ UNCHANGED <<inst_ptr, config, src_idx>>

\* end_scan that puts the whole instance back to its default.
end_scan_resets_instance ==
    /\ inst_ptr = "live"
    /\ src_rows' = <<>>
    /\ src_idx' = 0
    /\ base_url' = "" /\ phone_number' = "" /\ from_number' = ""
    /\ api_key' = ""
    /\ call' = CallOf("end_scan", NoOpts, NoResp, <<>>)
    /\ ret' = Ok
    /\ row' = <<>>
    /\ req' = NoReq
    /\ scanState' = "idle" /\ fetched' = <<>> /\ nEmitted' = 0
    /\ UNCHANGED inst_ptr

end_scan ==
    /\ inst_ptr = "live"
    /\ src_rows' = <<>>
    /\ src_idx' = 0
    /\ call' = CallOf("end_scan", NoOpts, NoResp, <<>>)
    /\ ret' = Ok
    /\ row' = <<>>
    /\ req' = NoReq
    /\ scanState' = "idle" /\ fetched' = <<>> /\ nEmitted' = 0
    /\ UNCHANGED <<inst_ptr, config>>

begin_modify ==
    /\ ret' = Err(UnsupportedModify)
    /\ Untouched("begin_modify")

insert ==
    /\ ret' = Ok
    /\ Untouched("insert")

update ==
    /\ ret' = Ok
    /\ Untouched("update")

delete ==
    /\ ret' = Ok
    /\ Untouched("delete")

end_modify ==
    /\ ret' = Ok
    /\ Untouched("end_modify")

Next ==
    \/ init
    \/ begin_scan
    \/ iter_scan
    \/ re_scan
    \/ end_scan
    \/ begin_modify
    \/ insert
    \/ update
    \/ delete
    \/ end_modify

Spec == Init /\ [][Next]_vars

(***************************************************************************)
(* The decoding on its own: the instance after a successful init and a     *)
(* begin_scan that fetched one record, then iter_scan calls.               *)
(***************************************************************************)
DecodeInit ==
    \E r \in DecodeRecords :
        /\ inst_ptr = "live"
        /\ base_url = BaseUrl
        /\ phone_number = "v" /\ from_number = "v" /\ api_key = "v"
        /\ src_rows = <<r>> /\ src_idx = 0
        /\ row = <<>>
        /\ call = CallOf("begin_scan", NoOpts,
                         Json(Top(JBool(TRUE), JArr(<<r>>))), <<>>)
        /\ ret = Ok
        /\ req = [sent |-> TRUE, url |-> Url(BaseUrl, "v", "v"), key |-> "v"]
        /\ scanState = "clean" /\ fetched = <<r>> /\ nEmitted = 0

DecodeNext == iter_scan_decode

SpecDecode == DecodeInit /\ [][DecodeNext]_vars

(***************************************************************************)
(* Properties.                                                             *)
(***************************************************************************)
ConfigValid ==
    /\ phone_number # "" /\ from_number # "" /\ api_key # ""
    /\ base_url = BaseUrl

AllSupported(cols) == \A i \in DOMAIN cols : Supported(cols[i])
FirstUnsupported(cols) ==
    cols[CHOOSE i \in DOMAIN cols :
            /\ ~Supported(cols[i])
            /\ \A j \in 1..(i - 1) : Supported(cols[j])]
\* The row a record decodes to: one cell per requested column, in order.
DecodeRow(rec, cols) == [i \in 1..Len(cols) |-> Decode(rec, cols[i])]

\* A scan begun on a successfully initialized instance with no earlier scan
\* left open (the first begin_scan after initialize, or after end_scan).
CleanScan == scanState = "clean" /\ ConfigValid

\* C1: in a scan begun by a successful begin_scan after a successful
\* initialize, the k-th iter_scan with supported columns emits the row
\* decoded from the k-th record of the fetched array R and advances; once
\* len(R) rows were emitted every further iter_scan returns "no more rows",
\* pushes no cell and leaves the cursor and the buffer alone.
C1_CleanScanEmitsInOrder ==
    /\ [](CleanScan => nEmitted <= Len(fetched))
    /\ [][(call'.op = "iter_scan" /\ CleanScan)
          => IF nEmitted < Len(fetched)
             THEN AllSupported(call'.cols)
                  => /\ ret' = Some0
                     /\ row' = DecodeRow(RecordOf(fetched[nEmitted + 1]),
                                         call'.cols)
                     /\ nEmitted' = nEmitted + 1
                     /\ src_idx' = src_idx + 1
                     /\ UNCHANGED src_rows
             ELSE /\ ret' = NoMoreRows
                  /\ row' = <<>>
                  /\ nEmitted' = nEmitted
                  /\ UNCHANGED buffer]_vars

\* A clean scan of two different records, both emitted, then exhausted.
C1_Witness ==
    /\ CleanScan
    /\ Len(fetched) = 2 /\ fetched[1] # fetched[2]
    /\ nEmitted = 2
    /\ call.op = "iter_scan" /\ ret = NoMoreRows

\* C2: after every successful begin_scan (here: on a valid configuration)
\* the buffer is the response's products array and the cursor is 0.
C2_BeginScanResetsCursor ==
    (ConfigValid /\ call.op = "begin_scan" /\ ret.ok)
    => /\ src_rows = Get(call.resp.json, "products").a
       /\ src_idx = 0

\* C3: the cursor stays within the buffer, and equals its length exactly
\* when the scan is exhausted (here: in the states of a successfully
\* initialized instance).
C3_CursorWithinBuffer ==
    ConfigValid
    => /\ 0 <= src_idx
       /\ src_idx <= Len(src_rows)
       /\ (src_idx = Len(src_rows)) <=> Exhausted(src_idx, src_rows)

\* C4: an iter_scan that fails has pushed no cell into the host's row.
C4_NoCellsOnFailure ==
    (ConfigValid /\ call.op = "iter_scan" /\ ~ret.ok) => row = <<>>

\* C5: an iter_scan with a record left and an unsupported name among the
\* requested columns fails with the error naming that column, whatever the
\* record holds, and leaves the cursor and the buffer as they were; the
\* state after the failure still has that record left, so the same call
\* fails again.
C5_UnsupportedColumnFails ==
    /\ []((call.op = "iter_scan" /\ ~ret.ok)
          => /\ src_idx < Len(src_rows)
             /\ ~AllSupported(call.cols))
    /\ [][(/\ call'.op = "iter_scan"
           /\ inst_ptr = "live"
           /\ src_idx < Len(src_rows)
           /\ ~AllSupported(call'.cols))
          => /\ ret' = Err(UnsupportedColumn(FirstUnsupported(call'.cols)))
             /\ UNCHANGED buffer]_vars

\* A failed iter_scan whose unsupported column is the second one requested.
C5_Witness ==
    /\ call.op = "iter_scan"
    /\ Len(call.cols) = 2
    /\ Supported(call.cols[1])
    /\ ret = Err(UnsupportedColumn(call.cols[2]))
    /\ ConfigValid
    /\ src_idx = 1 /\ Len(src_rows) = 2

\* C6: end_scan returns Ok and leaves the buffer empty and the cursor 0
\* from any state, also when repeated, and never changes the configuration.
C6_EndScanResets ==
    /\ [](inst_ptr = "live" => ENABLED end_scan)
    /\ [](call.op = "end_scan"
          => ret = Ok /\ src_rows = <<>> /\ src_idx = 0)
    /\ [][call'.op = "end_scan" => UNCHANGED config]_vars

\* end_scan has run on an initialized instance.
C6_Witness ==
    /\ call.op = "end_scan" /\ ret = Ok
    /\ ConfigValid
    /\ src_rows = <<>> /\ src_idx = 0

Present(opts, k) == k \in DOMAIN opts /\ opts[k] # ""

\* C7: initialize succeeds exactly when the three options are supplied and
\* non-empty; with exactly one of them missing or empty it fails naming that
\* key; on success the endpoint base is recorded.
C7_InitializeValidates ==
    call.op = "init"
    => /\ ret.ok <=> \A k \in OptKeys : Present(call.opts, k)
       /\ \A k \in OptKeys :
            (/\ ~Present(call.opts, k)
             /\ \A j \in OptKeys \ {k} : Present(call.opts, j))
            => ret = Err(MissingOption(k))
       /\ ret.ok => base_url = BaseUrl
       /\ ~ret.ok => ret.err \in {MissingOption(k) : k \in OptKeys}

\* initialize with only api_key missing fails naming api_key.
C7_Witness ==
    /\ call.op = "init"
    /\ Present(call.opts, "phone_number")
    /\ Present(call.opts, "from_number")
    /\ "api_key" \notin DOMAIN call.opts
    /\ ret = Err(MissingOption("api_key"))

\* C8: a begin_scan that hands a request to the transport, or fills the
\* buffer, runs on a valid configuration.
C8_ScanOnlyOnValidConfig ==
    (req.sent \/ (call.op = "begin_scan" /\ ret.ok)) => ConfigValid

SuccessTrue(j) ==
    LET s == Get(j, "success") IN s.t = "bool" /\ s.b
ProductsArray(j) == Get(j, "products").t = "arr"

\* C9: begin_scan fails with TransportError when the GET fails; else with
\* DecodeError when the body is not JSON; else with ApiError unless success
\* is the boolean true; else with SchemaError unless products is an array;
\* and succeeds only when none of these apply.
C9_FailurePrecedence ==
    call.op = "begin_scan"
    => LET resp == call.resp
       IN  /\ resp.tr = "err" => ret = Err(TransportError)
           /\ (resp.tr = "ok" /\ ~resp.wf) => ret = Err(DecodeError)
           /\ (resp.tr = "ok" /\ resp.wf /\ ~SuccessTrue(resp.json))
              => ret = Err(ApiError)
           /\ (/\ resp.tr = "ok" /\ resp.wf /\ SuccessTrue(resp.json)
               /\ ~ProductsArray(resp.json))
              => ret \in {Err(SchemaErrorMissing), Err(SchemaErrorNotArray)}
           /\ ret.ok <=> /\ resp.tr = "ok" /\ resp.wf
                         /\ SuccessTrue(resp.json)
                         /\ ProductsArray(resp.json)

\* ApiError for a response that has no success flag and carries products.
C9_Witness ==
    /\ call.op = "begin_scan"
    /\ Get(call.resp.json, "success").t = "none"
    /\ ProductsArray(call.resp.json)
    /\ ret = Err(ApiError)
    /\ ConfigValid

WriteOps == {"insert", "update", "delete", "end_modify"}

\* C10: re_scan and begin_modify fail with Unsupported and insert, update,
\* delete and end_modify succeed, in every state, and none of the six
\* changes the buffer, the cursor or the configuration.
C10_ReadOnlyCalls ==
    /\ [](/\ ENABLED re_scan /\ ENABLED begin_modify /\ ENABLED insert
          /\ ENABLED update /\ ENABLED delete /\ ENABLED end_modify)
    /\ [](/\ call.op = "re_scan" => ret = Err(UnsupportedRescan)
          /\ call.op = "begin_modify" => ret = Err(UnsupportedModify)
          /\ call.op \in WriteOps => ret = Ok)
    /\ [][call'.op \in WriteOps \cup {"re_scan", "begin_modify"}
          => UNCHANGED <<config, buffer>>]_vars

\* insert was called in the middle of a scan.
C10_Witness ==
    /\ call.op = "insert" /\ ret = Ok
    /\ ConfigValid
    /\ src_idx = 1 /\ Len(src_rows) = 2

Emitted == call.op = "iter_scan" /\ ret = Some0
\* The record the last emitted row was decoded from.
EmittedRecord == RecordOf(src_rows[src_idx])

\* C11: a successful iter_scan leaves in the row exactly one cell per
\* requested column, in the requested order (repeats and the empty list
\* included), a null cell standing where the record has no value of the
\* column's type, and moves the cursor on by one; the record p1 with the
\* columns id, name, is_hidden, max_available gives "p1", "Shirt", false, 5.
C11_RowMatchesColumns ==
    /\ [][(call'.op = "iter_scan" /\ ret' = Some0)
          => /\ Len(row') = Len(call'.cols)
             /\ \A i \in 1..Len(call'.cols) :
                  row'[i] = Decode(RecordOf(src_rows[src_idx + 1]),
                                   call'.cols[i])
             /\ src_idx' = src_idx + 1]_vars
    /\ []((Emitted /\ call.cols = ExampleCols /\ src_rows[src_idx] = "p1")
          => row = <<CellString("p1"), CellString("Shirt"),
                     CellBool(FALSE), CellI64(5)>>)

\* The four-column example has been emitted.
C11_Witness ==
    /\ Emitted
    /\ call.cols = ExampleCols
    /\ src_rows[src_idx] = "p1"
    /\ Len(row) = 4 /\ row[4] = CellI64(5)

\* The url strings of an images array whose elements all carry one.
UrlStrings(images) == [j \in 1..Len(images) |-> images[j].f["url"].s]
AllUrlStrings(images) ==
    \A j \in 1..Len(images) :
        images[j].isObj /\ images[j].f["url"].t = "str"

\* C12: the images cell is the urls joined with ", " in array order for an
\* array of objects with url strings, the empty string for an empty array,
\* and the empty string as well when the record has no images field.
C12_ImagesCell ==
    (Emitted /\ EmittedRecord.isObj)
    => \A i \in 1..Len(call.cols) :
         call.cols[i] = "images"
         => LET v == Get(EmittedRecord, "images")
            IN  /\ (v.t = "arr" /\ AllUrlStrings(v.a))
                   => row[i] = CellString(Join(UrlStrings(v.a)))
                /\ (v.t = "arr" /\ v.a = <<>>) => row[i] = CellString("")
                /\ v.t = "none" => row[i] = CellString("")

\* C13: with supported columns only iter_scan does not fail, and each cell
\* is the text, boolean or integer the record holds under the column's key
\* when that value has the column's type, and null otherwise.
C13_SupportedColumnsDecode ==
    /\ (call.op = "iter_scan" /\ ~ret.ok) => ~AllSupported(call.cols)
    /\ Emitted
       => /\ Len(row) = Len(call.cols)
          /\ \A i \in 1..Len(call.cols) :
               LET c == call.cols[i]
                   v == Get(EmittedRecord, c)
               IN  /\ c \in StrCols
                      => row[i] = IF v.t = "str" THEN CellString(v.s)
                                  ELSE CellNull
                   /\ c \in BoolCols
                      => row[i] = IF v.t = "bool" THEN CellBool(v.b)
                                  ELSE CellNull
                   /\ c = "max_available"
                      => row[i] = IF v.t = "int" THEN CellI64(v.n)
                                  ELSE CellNull
                   /\ c = "images" => row[i].k \in {"string", "null"}

\* A number that is not an i64 under max_available has become a null cell.
C13_Witness ==
    /\ Emitted
    /\ call.cols = <<"max_available">>
    /\ Get(EmittedRecord, "max_available").t = "float"
    /\ row = <<CellNull>>

EmitStep ==
    call'.op = "iter_scan" /\ ret' = Some0 /\ src_idx' = src_idx + 1

\* C14: the cursor changes only by an emitting iter_scan (plus one) and by
\* end_scan (to 0); no other call changes it (here: on a valid
\* configuration).
C14_CursorOnlyIterAndEndScan ==
    [][(ConfigValid /\ src_idx' # src_idx)
       => \/ EmitStep
          \/ (call'.op = "end_scan" /\ src_idx' = 0)]_vars

\* C14 as amended: the cursor changes only by an emitting iter_scan (plus
\* one), by end_scan (to 0) and by initialize (to 0, with the fresh
\* instance); begin_scan, a failed or exhausted iter_scan, re_scan and the
\* write-path calls leave it alone.
C14_CursorChanges ==
    [][/\ src_idx' # src_idx
          => \/ EmitStep
             \/ (call'.op \in {"end_scan", "init"} /\ src_idx' = 0)
       /\ (call'.op = "iter_scan" /\ ret' = Some0) => src_idx' = src_idx + 1
       /\ (call'.op = "iter_scan" /\ ret' # Some0) => src_idx' = src_idx
       /\ call'.op \in {"end_scan", "init"} => src_idx' = 0]_vars

\* Two rows emitted in a row: the cursor went up by one each time.
C14_Witness ==
    /\ ConfigValid
    /\ Emitted
    /\ src_idx = 2 /\ nEmitted = 2 /\ scanState = "clean"

\* C15: every call other than initialize leaves the four configuration
\* fields unchanged, whether it succeeds or fails.
C15_ConfigWrittenByInitOnly ==
    [][call'.op # "init" => UNCHANGED config]_vars

\* A failed begin_scan on a valid configuration, which is still valid.
C15_Witness ==
    /\ ConfigValid
    /\ call.op = "begin_scan" /\ ~ret.ok
    /\ src_rows # <<>>

GoodResponse(resp) ==
    /\ resp.tr = "ok" /\ resp.wf
    /\ SuccessTrue(resp.json) /\ ProductsArray(resp.json)

\* C16: nothing keeps a second scan off the instance: begin_scan can be
\* called in every state of a live instance and, given a good response,
\* succeeds also while a scan is open, replaces the buffer and leaves the
\* one cursor where the open scan had moved it.
C16_SecondScanSharesCursor ==
    /\ [](inst_ptr = "live" => ENABLED begin_scan)
    /\ [][(call'.op = "begin_scan" /\ GoodResponse(call'.resp))
          => /\ ret' = Ok
             /\ src_rows' = Get(call'.resp.json, "products").a
             /\ src_idx' = src_idx]_vars

\* A second scan has just fetched two records over an open scan and starts
\* at the cursor the first one left: its first record is never emitted.
C16_Witness ==
    /\ ConfigValid
    /\ scanState = "carry"
    /\ call.op = "begin_scan" /\ ret = Ok
    /\ Len(src_rows) = 2 /\ src_idx = 1

\* C17: a begin_scan that fails leaves the buffer and the cursor as they
\* were; the buffer changes only in a begin_scan that succeeds.
C17_FailedBeginScanKeepsBuffer ==
    [][call'.op = "begin_scan"
       => /\ ~ret'.ok => UNCHANGED buffer
          /\ src_rows' # src_rows => ret'.ok]_vars

\* begin_scan failed at its last check in the middle of a scan.
C17_Witness ==
    /\ ConfigValid
    /\ call.op = "begin_scan" /\ ret = Err(SchemaErrorNotArray)
    /\ Len(src_rows) = 2 /\ src_idx = 1

\* C18: with the cursor at or past the end of the buffer iter_scan returns
\* "no more rows", whatever the requested columns, and changes nothing; an
\* unsupported column is reported only while a record is left.
C18_ExhaustionBeforeColumns ==
    /\ []((call.op = "iter_scan" /\ ~ret.ok) => src_idx < Len(src_rows))
    /\ [][(/\ call'.op = "iter_scan"
           /\ inst_ptr = "live"
           /\ src_idx >= Len(src_rows))
          => /\ ret' = NoMoreRows
             /\ row' = <<>>
             /\ UNCHANGED buffer]_vars

\* An exhausted scan asked for an unsupported column.
C18_Witness ==
    /\ ConfigValid
    /\ call.op = "iter_scan" /\ ret = NoMoreRows
    /\ ~AllSupported(call.cols)
    /\ Len(src_rows) = 2 /\ src_idx = 2

OptionRead(opts, k) == IF k \in DOMAIN opts THEN opts[k] ELSE ""

\* C19: after every initialize, successful or not, the instance is live,
\* the buffer is empty and the cursor is 0; after a failed one the endpoint
\* base is empty and the three fields hold the option values read.
C19_InitInstallsFreshInstance ==
    call.op = "init"
    => /\ inst_ptr = "live"
       /\ src_rows = <<>> /\ src_idx = 0
       /\ phone_number = OptionRead(call.opts, "phone_number")
       /\ from_number = OptionRead(call.opts, "from_number")
       /\ api_key = OptionRead(call.opts, "api_key")
       /\ ~ret.ok => base_url = ""

\* A failed initialize that kept the two options it was given.
C19_Witness ==
    /\ call.op = "init" /\ ~ret.ok
    /\ phone_number = "v" /\ from_number = "v" /\ api_key = ""
    /\ base_url = ""

====
